---- MODULE Spec2Model ----
(***************************************************************************)
(* RAG chatbot backend: the chat orchestrator (ChatService), its sliding   *)
(* window rate limiter, the conversation store it persists turns to, the   *)
(* prompt assembly of the response generator, the retried upsert and the   *)
(* index provisioning of the vector index client, the batching of the      *)
(* embedding client, and the document ingestion: the chunking pipeline and *)
(* its HTTP entry point.                                                   *)
(*                                                                         *)
(* Time is counted in whole seconds and the clock never runs backwards.    *)
(* Every external call (embedding provider, vector index, LLM, database)  *)
(* may raise; which call raises in a turn is an input of the turn.  The    *)
(* created_at of a message is the instant of its insert, and no two rows   *)
(* share one: the committed messages are kept in created_at order.         *)
(***************************************************************************)
EXTENDS Integers, Sequences, FiniteSets, TLC

VARIABLES
    now,            \* the wall clock read by datetime.now()
    rate_limits,    \* ChatService._rate_limits: key -> list of timestamps
    accepted,       \* history: key -> every time _check_rate_limit returned True
    conversations,  \* committed rows of table "conversations" (their ids)
    messages,       \* committed rows of table "messages", in created_at order
    turn,           \* the last process_message call: its inputs and its outcome
    nturns,         \* number of process_message calls made so far
    index,          \* the remote vector index: the vectors upserted so far
    next_uuid,      \* number of uuid4() values drawn for vectors so far
    store,          \* the last store_embeddings call: its inputs and its outcome
    nstores,        \* number of store_embeddings calls made so far
    gen,            \* the last generate_response call: its inputs and its outcome
    embedded,       \* the last generate_embeddings call: its inputs and its outcome
    processed,      \* the last DocumentProcessor.process_document call
    http,           \* the last request to POST /process and its response
    remote_indexes, \* the indexes that exist at the index provider
    ensure,         \* the last _ensure_index_exists call and its outcome
    nensures        \* number of _ensure_index_exists calls made so far

vars == <<now, rate_limits, accepted, conversations, messages, turn, nturns,
          index, next_uuid, store, nstores,
          gen, embedded, processed, http, remote_indexes, ensure, nensures>>

chatVars == <<now, rate_limits, accepted, conversations, messages, turn, nturns>>
storeVars == <<index, next_uuid, store, nstores>>
ingestVars == <<embedded, processed, http>>
indexVars == <<remote_indexes, ensure, nensures>>

-----------------------------------------------------------------------------
(* Bounds of the model *)

RateMaxTurns == 12     \* process_message calls per run of SpecRate
ChatMaxTurns == 3      \* process_message calls per run of SpecChat
MaxConvs == 2          \* conversations that may be created
MaxMsgs == 6           \* committed messages
MaxStores == 2         \* store_embeddings calls per run of SpecStore
MaxDocs == 3           \* retrieved documents handed to generate_response
MaxTexts == 41         \* texts handed to generate_embeddings
MaxEnsures == 3        \* _ensure_index_exists calls per run of SpecIndex
MaxChunks == 4         \* chunks the splitter yields for one document

-----------------------------------------------------------------------------
(* Program constants *)

limit == 10                 \* _check_rate_limit(limit=10)
window == 60                \* _check_rate_limit(window=60)
SecondsPerDay == 86400      \* timedelta.seconds is the remainder modulo one day
history_limit == 10         \* get_conversation_messages(limit=10)
prompt_history == 5         \* conversation_history[-5:]
score_threshold == 70       \* doc["score"] > 0.7, scores in hundredths
upsert_batch_size == 100    \* batch_size = 100
stop_after_attempt == 3     \* @retry(stop=stop_after_attempt(3))
embed_batch_size == 20      \* batch_size = 20
VECTOR_DIMENSION == 768     \* settings.VECTOR_DIMENSION
HTTP_422_UNPROCESSABLE_ENTITY == 422    \* status_code of DocumentProcessingError
HTTP_500 == 500             \* HTTPException(status_code=500)

-----------------------------------------------------------------------------
(* Values *)

None == "None"
anonymous == "anonymous"

\* uuid4() values handed to new conversations, in the order they are drawn
IdPool == <<"c1", "c2", "c3", "c4">>
UnknownId == "c0"       \* an id a client sends that no conversation has
ConvIds == {IdPool[i] : i \in 1..MaxConvs}
Keys == ConvIds \cup {UnknownId, anonymous}

Messages == {"hi", "bye"}       \* user texts
LLMResponse == "hello"          \* response.content of the LLM
Followups == <<"q1", "q2", "q3">>

\* the matches the vector index returns for a query: text and score (x100)
Retrieved ==
    << [text |-> "d1", score |-> 90, metadata |-> [chunk_index |-> 0]],
       [text |-> "d2", score |-> 75, metadata |-> [chunk_index |-> 1]],
       [text |-> "d3", score |-> 50, metadata |-> [chunk_index |-> 2]] >>

Range(s) == {s[i] : i \in 1..Len(s)}

Reverse(s) == [i \in 1..Len(s) |-> s[Len(s) + 1 - i]]

\* Python s[:n]
FirstN(s, n) == IF Len(s) <= n THEN s ELSE SubSeq(s, 1, n)

\* Python s[-n:]
LastN(s, n) == IF Len(s) <= n THEN s ELSE SubSeq(s, Len(s) - n + 1, Len(s))

\* the sequence s up to and including the first occurrence of x (all of s if absent)
UpTo(s, x) ==
    IF x \in Range(s)
    THEN SubSeq(s, 1, CHOOSE i \in 1..Len(s) : s[i] = x /\ \A j \in 1..(i-1) : s[j] # x)
    ELSE s

-----------------------------------------------------------------------------
(* Rate limiter: ChatService._check_rate_limit *)

\* timedelta.seconds of a difference of d seconds: the seconds field of the
\* normalised (days, seconds, microseconds) triple, 0 <= seconds < 86400
timedelta_seconds(d) == d % SecondsPerDay

\* faulty variant: the limit test is off by one
check_rate_limit_off_by_one(stamps, t) ==
    LET kept == SelectSeq(stamps, LAMBDA ts : timedelta_seconds(t - ts) < window)
    IN  IF Len(kept) > limit
        THEN [allowed |-> FALSE, stamps |-> kept]
        ELSE [allowed |-> TRUE, stamps |-> Append(kept, t)]

\* stamps: the key's list (empty when the key is new); t: datetime.now()
check_rate_limit(stamps, t) ==
    LET kept == SelectSeq(stamps, LAMBDA ts : timedelta_seconds(t - ts) < window)
    IN  IF Len(kept) >= limit
        THEN [allowed |-> FALSE, stamps |-> kept]
        ELSE [allowed |-> TRUE, stamps |-> Append(kept, t)]

-----------------------------------------------------------------------------
(* Conversation store: MessageModel, ConversationModel *)

MessagesOf(msgs, cid) == SelectSeq(msgs, LAMBDA m : m.conversation_id = cid)

\* select(...).where(conversation_id == cid).order_by(created_at.desc()).limit(lim)
get_conversation_messages(msgs, cid, lim) ==
    FirstN(Reverse(MessagesOf(msgs, cid)), lim)

\* f.hist names the database call of the history load that raises, if any
get_conversation_history(cid, convs, msgs, f) ==
    IF f.hist = "get"
    THEN [calls |-> <<"db.get">>, history |-> <<>>]
    ELSE IF cid \notin convs
    THEN [calls |-> <<"db.get">>, history |-> <<>>]
    ELSE IF f.hist = "select"
    THEN [calls |-> <<"db.get", "db.execute">>, history |-> <<>>]
    ELSE LET rows == get_conversation_messages(msgs, cid, history_limit)
         IN  [calls |-> <<"db.get", "db.execute">>,
              history |-> [i \in 1..Len(rows) |->
                              [role |-> IF rows[i].is_user THEN "user" ELSE "assistant",
                               content |-> rows[i].content]]]

\* uuid4() for a new conversation: an id no conversation has
uuid4(convs) == IdPool[Cardinality(convs) + 1]

\* the database calls _save_conversation makes, in order
save_steps(conversation_id) ==
    (IF conversation_id = None THEN <<"db.add_conversation", "db.flush">> ELSE <<>>)
    \o <<"db.add_user", "db.add_assistant", "db.commit">>

\* faulty variant: the new conversation is committed where the code only flushes it
save_conversation_commit_at_flush(message, response, conversation_id, convs, msgs, f) ==
    LET creating == conversation_id = None
        steps == save_steps(conversation_id)
        cid == IF creating THEN uuid4(convs) ELSE conversation_id
        fk_ok == creating \/ cid \in convs
        failstep == IF f.save \in Range(steps) THEN f.save
                    ELSE IF ~fk_ok THEN "db.commit" ELSE "none"
        failed == failstep # "none"
        flushed == creating /\ failstep \notin {"db.add_conversation", "db.flush"}
    IN  [conversations |-> IF flushed THEN convs \cup {cid} ELSE convs,
         messages |-> IF failed THEN msgs
                      ELSE msgs \o << [conversation_id |-> cid, content |-> message,
                                       is_user |-> TRUE],
                                      [conversation_id |-> cid, content |-> response,
                                       is_user |-> FALSE] >>,
         calls |-> UpTo(steps, failstep) \o (IF failed THEN <<"db.rollback">> ELSE <<>>),
         raised |-> failed /\ f.rollback,
         saved_as |-> IF failed THEN None ELSE cid]

\* convs, msgs: the committed rows; f.save names the database call of the save
\* that raises, if any; f.rollback: whether the rollback raises.  A commit of
\* messages whose conversation_id is no row of "conversations" violates the
\* foreign key and raises.  Rows added or flushed are committed by commit and
\* by nothing else.
save_conversation(message, response, conversation_id, convs, msgs, f) ==
    LET creating == conversation_id = None
        steps == save_steps(conversation_id)
        cid == IF creating THEN uuid4(convs) ELSE conversation_id
        fk_ok == creating \/ cid \in convs
        failstep == IF f.save \in Range(steps) THEN f.save
                    ELSE IF ~fk_ok THEN "db.commit" ELSE "none"
        failed == failstep # "none"
    IN  [conversations |-> IF failed \/ ~creating THEN convs ELSE convs \cup {cid},
         messages |-> IF failed THEN msgs
                      ELSE msgs \o << [conversation_id |-> cid, content |-> message,
                                       is_user |-> TRUE],
                                      [conversation_id |-> cid, content |-> response,
                                       is_user |-> FALSE] >>,
         calls |-> UpTo(steps, failstep) \o (IF failed THEN <<"db.rollback">> ELSE <<>>),
         raised |-> failed /\ f.rollback,
         saved_as |-> IF failed THEN None ELSE cid]

-----------------------------------------------------------------------------
(* Response generator: LLMService.generate_response *)

\* the entry of the sources list made for one retrieved document
source_entry(d) ==
    [text |-> d.text, metadata |-> d.metadata, similarity_score |-> d.score]

\* faulty variant: a document scoring exactly the threshold is cited too
generate_response_inclusive(query, context, conversation_history) ==
    [prompt |-> [previous |-> LastN(conversation_history, prompt_history),
                 context |-> [i \in 1..Len(context) |-> context[i].text],
                 query |-> query],
     response |-> LLMResponse,
     sources |-> LET cited == SelectSeq(context, LAMBDA d : d.score >= score_threshold)
                 IN  [k \in 1..Len(cited) |-> source_entry(cited[k])]]

\* the messages sent to the LLM and the sources returned to the caller
generate_response(query, context, conversation_history) ==
    [prompt |-> [previous |-> LastN(conversation_history, prompt_history),
                 context |-> [i \in 1..Len(context) |-> context[i].text],
                 query |-> query],
     response |-> LLMResponse,
     sources |-> LET cited == SelectSeq(context, LAMBDA doc : doc.score > score_threshold)
                 IN  [k \in 1..Len(cited) |-> source_entry(cited[k])]]

-----------------------------------------------------------------------------
(* Chat orchestrator: ChatService.process_message *)

\* conversation_id or "anonymous"
client_key(conversation_id) ==
    IF conversation_id = None THEN anonymous ELSE conversation_id

\* faulty variant: a failure of the follow-up generation is swallowed
Raises_followup_swallowed(step, f) == f.pipe = step /\ step # "llm.followup"

\* whether the awaited call `step` raises in this turn; what it raises is
\* caught by process_message's except clause and re-raised as ChatError
Raises(step, f) == f.pipe = step

\* faulty variant: the query is embedded before the rate limit is checked
PipelineOrder_embed_first ==
    <<"embed", "rate_limit", "index.query", "history", "llm.generate",
      "llm.followup", "save">>

\* the statements of process_message's try block, in program order
PipelineOrder ==
    <<"rate_limit", "embed", "index.query", "history", "llm.generate",
      "llm.followup", "save">>

\* one statement of the try block, applied to the locals c of the call
DoStep(c, step, in) ==
    CASE step = "rate_limit" ->
            LET rl == check_rate_limit(c.stamps, in.now)
            IN  [c EXCEPT !.stamps = rl.stamps, !.allowed = rl.allowed,
                          !.raised = ~rl.allowed]
      [] step = "embed" ->
            [c EXCEPT !.calls = Append(@, "embed"), !.raised = Raises("embed", in.f)]
      [] step = "index.query" ->
            [c EXCEPT !.calls = Append(@, "index.query"),
                      !.raised = Raises("index.query", in.f),
                      !.context = IF Raises("index.query", in.f) THEN <<>> ELSE Retrieved]
      [] step = "history" ->
            IF in.conversation_id # None /\ in.has_session
            THEN LET h == get_conversation_history(in.conversation_id,
                                                   c.conversations, c.messages, in.f)
                 IN  [c EXCEPT !.calls = @ \o h.calls, !.history = h.history]
            ELSE c
      [] step = "llm.generate" ->
            LET g == generate_response(in.message, c.context, c.history)
            IN  IF Raises("llm.generate", in.f)
                THEN [c EXCEPT !.calls = Append(@, "llm.generate"),
                               !.prompt = <<g.prompt>>, !.raised = TRUE]
                ELSE [c EXCEPT !.calls = Append(@, "llm.generate"),
                               !.prompt = <<g.prompt>>,
                               !.response = <<g.response>>, !.sources = g.sources]
      [] step = "llm.followup" ->
            [c EXCEPT !.calls = Append(@, "llm.followup"),
                      !.raised = Raises("llm.followup", in.f),
                      !.followups = IF Raises("llm.followup", in.f) THEN <<>> ELSE Followups]
      [] step = "save" ->
            IF in.has_session
            THEN LET s == save_conversation(in.message, c.response[1], in.conversation_id,
                                            c.conversations, c.messages, in.f)
                 IN  [c EXCEPT !.calls = @ \o s.calls, !.raised = s.raised,
                               !.conversations = s.conversations,
                               !.messages = s.messages, !.saved_as = s.saved_as]
            ELSE c

RECURSIVE RunSteps(_, _, _)
\* the try block: the statements in order, up to the first that raises
RunSteps(c, steps, in) ==
    IF c.raised \/ steps = <<>>
    THEN c
    ELSE RunSteps(DoStep(c, Head(steps), in), Tail(steps), in)

\* in: the arguments and the clock; stamps, convs, msgs: the state the call reads.
\* The result carries the state it leaves and what the caller observes.
process_message(in, stamps, convs, msgs) ==
    LET c0 == [stamps |-> stamps, allowed |-> TRUE, calls |-> <<>>, raised |-> FALSE,
               context |-> <<>>, history |-> <<>>, prompt |-> <<>>, response |-> <<>>,
               sources |-> <<>>, followups |-> <<>>,
               conversations |-> convs, messages |-> msgs, saved_as |-> None]
        c == RunSteps(c0, PipelineOrder, in)
    IN  [stamps |-> c.stamps,
         allowed |-> c.allowed,
         conversations |-> c.conversations,
         messages |-> c.messages,
         calls |-> c.calls,
         history |-> c.history,
         prompt |-> c.prompt,
         saved_as |-> c.saved_as,
         status |-> IF c.raised THEN "error" ELSE "ok",
         error |-> IF c.raised THEN "ChatError" ELSE "none",
         payload |-> IF c.raised THEN <<>>
                     ELSE << [response |-> c.response[1],
                              sources |-> c.sources,
                              followup_questions |-> c.followups,
                              conversation_id |-> in.conversation_id] >>]

-----------------------------------------------------------------------------
(* Vector index client: VectorStoreService.store_embeddings *)

\* number of upsert calls for n vectors: len(range(0, n, batch_size))
NumBatches(n) == (n + upsert_batch_size - 1) \div upsert_batch_size

\* positions of the chunks in batches 1..b of n chunks
InBatches(n, b) == {j \in 1..n : j <= b * upsert_batch_size}

\* One execution of the function body.  call: which call this is; n: the number
\* of chunks; first_id: uuids drawn before; fail: the batch whose upsert raises
\* (0: none).  Every chunk gets a fresh uuid before the first upsert; the batches
\* before the failing one are written, the failing one and those after are not.
store_embeddings_body(call, n, first_id, fail, idx) ==
    LET ids == [j \in 1..n |-> first_id + j]
        written == IF fail = 0 THEN 1..n ELSE InBatches(n, fail - 1)
    IN  [index |-> idx \cup {[id |-> ids[j], call |-> call, chunk |-> j] : j \in written},
         next_uuid |-> first_id + n,
         ids |-> ids,
         raised |-> IF fail = 0 THEN "none" ELSE "VectorStoreError"]

\* what tenacity raises once stop_after_attempt is reached: the decorator sets
\* no reraise=True, so the last exception is wrapped in tenacity.RetryError
retry_exhausted(last) == "RetryError"

RECURSIVE retry(_, _, _, _, _, _)
\* @retry(stop=stop_after_attempt(3)): attempt k of the body and, if it raises,
\* the attempts after it; fails[k] is the batch that raises in attempt k
retry(k, call, n, fails, first_id, idx) ==
    LET b == store_embeddings_body(call, n, first_id, fails[k], idx)
    IN  IF b.raised = "none"
        THEN [status |-> "ok", error |-> "none", attempts |-> k, ids |-> b.ids,
              index |-> b.index, next_uuid |-> b.next_uuid]
        ELSE IF k >= stop_after_attempt
        THEN [status |-> "error", error |-> retry_exhausted(b.raised), attempts |-> k,
              ids |-> <<>>, index |-> b.index, next_uuid |-> b.next_uuid]
        ELSE retry(k + 1, call, n, fails, b.next_uuid, b.index)

store_embeddings(call, n, fails, first_id, idx) == retry(1, call, n, fails, first_id, idx)

-----------------------------------------------------------------------------
(* Embedding client: EmbeddingService.generate_embeddings *)

\* the vector the provider computes for one text
Embedding(t) == <<t + 1, 2 * t>>

\* Python's s[lo:hi] on a list, 0-based, clipped to the list
Slice(s, lo, hi) ==
    IF lo >= Len(s) THEN <<>>
    ELSE SubSeq(s, lo + 1, IF hi < Len(s) THEN hi ELSE Len(s))

\* _process_batch: client.encode returns one vector per text of the batch
process_batch(texts) == [i \in 1..Len(texts) |-> Embedding(texts[i])]

\* faulty variant: the batch result replaces what was collected
extend_overwrite(embeddings, batch_embeddings) == batch_embeddings

\* embeddings.extend(batch_embeddings)
extend(embeddings, batch_embeddings) == embeddings \o batch_embeddings

\* the loop `for i in range(0, len(texts), batch_size)`; the fail-th provider
\* call raises (0: none does), which the except clause turns into
\* DocumentProcessingError: nothing is returned
RECURSIVE embed_loop(_, _, _, _, _)
embed_loop(texts, i, embeddings, calls, fail) ==
    IF i >= Len(texts)
    THEN [status |-> "ok", error |-> "none", embeddings |-> embeddings,
          calls |-> calls]
    ELSE LET batch == Slice(texts, i, i + embed_batch_size)
             sent == Append(calls, batch)
         IN  IF Len(sent) = fail
             THEN [status |-> "error", error |-> "DocumentProcessingError",
                   embeddings |-> None, calls |-> sent]
             ELSE embed_loop(texts, i + embed_batch_size,
                             extend(embeddings, process_batch(batch)), sent, fail)

generate_embeddings(texts, fail) == embed_loop(texts, 0, <<>>, <<>>, fail)

-----------------------------------------------------------------------------
(* Vector index client: VectorStoreService._ensure_index_exists *)

\* settings.PINECONE_INDEX_NAME, a Python str
index_name == [type |-> "str", value |-> "rag-chatbot"]

\* the description of one index that Pinecone.list_indexes() returns
IndexModel(name) ==
    [type |-> "IndexModel", name |-> name, dimension |-> VECTOR_DIMENSION,
     metric |-> "cosine"]

\* pc.list_indexes(): the descriptions of the indexes of the project, not
\* their names
list_indexes(remote) == {IndexModel(name) : name \in remote}

\* pc.create_index(name=...): the service refuses a name that is taken
create_index(name, remote, fail) ==
    IF fail = "create_index" \/ name \in remote
    THEN [raised |-> TRUE, remote |-> remote]
    ELSE [raised |-> FALSE, remote |-> remote \cup {name}]

\* _ensure_index_exists; fail names the client call that raises for a reason
\* of its own ("none": neither does).  `index_name not in existing_indexes`
\* compares a str with index descriptions.
ensure_index_exists(remote, fail) ==
    IF fail = "list_indexes"
    THEN [status |-> "error", error |-> "VectorStoreError", created |-> 0,
          remote |-> remote]
    ELSE LET existing_indexes == list_indexes(remote) IN
         IF index_name \notin existing_indexes
         THEN LET c == create_index(index_name.value, remote, fail) IN
              [status |-> IF c.raised THEN "error" ELSE "ok",
               error |-> IF c.raised THEN "VectorStoreError" ELSE "none",
               created |-> 1, remote |-> c.remote]
         ELSE [status |-> "ok", error |-> "none", created |-> 0,
               remote |-> remote]

-----------------------------------------------------------------------------
(* Chunking pipeline: DocumentProcessor.process_document *)

\* {**a, **b}: the keys of both, b's value where both have the key
Merge(a, b) ==
    [k \in DOMAIN a \cup DOMAIN b |-> IF k \in DOMAIN b THEN b[k] ELSE a[k]]

EmptyDict == <<>>

\* an Optional[Dict] argument
NoMetadata == [is_none |-> TRUE]
Metadata(d) == [is_none |-> FALSE, value |-> d]

\* `metadata or {}`: None and the empty dict are both falsy
or_empty(metadata) ==
    IF metadata.is_none THEN EmptyDict
    ELSE IF DOMAIN metadata.value = {} THEN EmptyDict ELSE metadata.value

\* str.lower() on the suffixes that occur
lower(suffix) ==
    CASE suffix = ".PDF" -> ".pdf"
      [] suffix = ".TXT" -> ".txt"
      [] OTHER -> suffix

\* SUPPORTED_FORMATS, and dict.get on it
SUPPORTED_FORMATS ==
    (".pdf" :> "PyPDFLoader") @@ (".txt" :> "TextLoader") @@
    (".docx" :> "Docx2txtLoader")

get(d, k) == IF k \in DOMAIN d THEN d[k] ELSE None

\* faulty variant: the caller's fields are merged over the chunk's own
chunk_metadata_caller_last(base_metadata, i, chunks) ==
    Merge(("chunk_index" :> i) @@ ("total_chunks" :> Len(chunks)), base_metadata)

\* {**base_metadata, "chunk_index": i, "total_chunks": len(chunks)}
chunk_metadata(base_metadata, i, chunks) ==
    Merge(base_metadata, ("chunk_index" :> i) @@ ("total_chunks" :> Len(chunks)))

\* the exception every failure of process_document is re-raised as
DocumentProcessingError(cause) ==
    [status |-> "error", error |-> "DocumentProcessingError",
     status_code |-> HTTP_422_UNPROCESSABLE_ENTITY, cause |-> cause,
     chunks |-> <<>>]

\* process_document(file_path, metadata): path is the file named, exists
\* whether it is there, chunks the page contents the splitter yields for it,
\* fail the library call that raises ("none": neither does)
process_document(path, exists, metadata, chunks, fail) ==
    IF ~exists THEN DocumentProcessingError("missing")
    ELSE IF get(SUPPORTED_FORMATS, lower(path.suffix)) = None
    THEN DocumentProcessingError("unsupported")
    ELSE IF fail = "load" THEN DocumentProcessingError("load")
    ELSE IF fail = "split" THEN DocumentProcessingError("split")
    ELSE LET base_metadata ==
                 Merge(("source" :> path.name) @@ ("file_type" :> lower(path.suffix)),
                       or_empty(metadata))
         IN  [status |-> "ok", error |-> "none", status_code |-> 0,
              cause |-> "none",
              chunks |-> [k \in 1..Len(chunks) |->
                             [text |-> chunks[k],
                              metadata |-> chunk_metadata(base_metadata, k - 1, chunks)]]]

-----------------------------------------------------------------------------
(* Ingestion entry point: POST /process *)

\* raise HTTPException(status_code=500, detail=str(e))
HTTPException(cause) ==
    [status_code |-> HTTP_500, cause |-> cause, body |-> [detail |-> cause]]

\* the handler of POST /process: file is the upload, chunks what the splitter
\* yields for it, fail the call that raises ("save": writing the temporary
\* file, "embed": the embedding provider)
post_process(file, metadata, chunks, fail) ==
    IF fail = "save" THEN HTTPException("save")
    ELSE LET p == process_document(file, TRUE, metadata, chunks, fail) IN
         IF p.status = "error" THEN HTTPException(p.cause)
         ELSE LET texts == [k \in 1..Len(p.chunks) |-> p.chunks[k].text]
                  e == generate_embeddings(texts, IF fail = "embed" THEN 1 ELSE 0)
              IN  IF e.status = "error" THEN HTTPException("embed")
                  ELSE [status_code |-> 200, cause |-> "none",
                        body |-> [status |-> "success",
                                  chunks |-> [k \in 1..Len(p.chunks) |->
                                      [text |-> p.chunks[k].text,
                                       metadata |-> p.chunks[k].metadata,
                                       embedding |-> e.embeddings[k]]]]]

-----------------------------------------------------------------------------
(* Inputs of a turn *)

NoFailure == [pipe |-> "none", hist |-> "none", save |-> "none", rollback |-> FALSE]

\* which call raises: one of the pipeline's calls, and/or a call of the history
\* load, or a call of the save and then possibly the rollback.  Choices that
\* name a call the turn never reaches are left out.
FailureChoices(conversation_id, has_session) ==
    {f \in [pipe : {"none", "embed", "index.query", "llm.generate", "llm.followup"},
            hist : {"none", "get", "select"},
            save : {"none"} \cup Range(save_steps(conversation_id)),
            rollback : BOOLEAN] :
        /\ (f.pipe \in {"embed", "index.query"} => f.hist = "none")
        /\ (f.pipe # "none" => f.save = "none")
        /\ (f.save = "none" => ~f.rollback)
        /\ (f.hist # "none" => f.save = "none")
        /\ (~has_session \/ conversation_id = None => f.hist = "none")
        /\ (~has_session => f.save = "none")}

IdleTurn ==
    [status |-> "idle", error |-> "none", message |-> "", conversation_id |-> None,
     has_session |-> FALSE, f |-> NoFailure, now |-> 0, key |-> anonymous,
     allowed |-> TRUE, calls |-> <<>>, history |-> <<>>, prompt |-> <<>>,
     payload |-> <<>>, saved_as |-> None]

-----------------------------------------------------------------------------
(* Actions *)

\* time passes: the clock moves to a later instant
Advance(t) ==
    /\ t > now
    /\ now' = t
    /\ UNCHANGED <<rate_limits, accepted, conversations, messages, turn, nturns>>
    /\ UNCHANGED <<storeVars, gen, ingestVars, indexVars>>

\* one call of process_message, from its first statement to its return or raise
ProcessMessage(message, conversation_id, has_session, f) ==
    LET key == client_key(conversation_id)
        in == [message |-> message, conversation_id |-> conversation_id,
               has_session |-> has_session, f |-> f, now |-> now]
    IN  \E r \in {process_message(in, rate_limits[key], conversations, messages)} :
        /\ rate_limits' = [rate_limits EXCEPT ![key] = r.stamps]
        /\ accepted' = IF r.allowed
                       THEN [accepted EXCEPT ![key] = Append(@, now)]
                       ELSE accepted
        /\ conversations' = r.conversations
        /\ messages' = r.messages
        /\ turn' = [status |-> r.status, error |-> r.error, message |-> message,
                    conversation_id |-> conversation_id, has_session |-> has_session,
                    f |-> f, now |-> now, key |-> key, allowed |-> r.allowed,
                    calls |-> r.calls, history |-> r.history, prompt |-> r.prompt,
                    payload |-> r.payload, saved_as |-> r.saved_as]
        /\ nturns' = nturns + 1
        /\ UNCHANGED now
        /\ UNCHANGED <<storeVars, gen, ingestVars, indexVars>>

\* one call of store_embeddings with n chunks, through its retries
StoreEmbeddings(n, fails) ==
    \E r \in {store_embeddings(nstores + 1, n, fails, next_uuid, index)} :
        /\ index' = r.index
        /\ next_uuid' = r.next_uuid
        /\ store' = [status |-> r.status, error |-> r.error, n |-> n, fails |-> fails,
                     attempts |-> r.attempts, ids |-> r.ids, call |-> nstores + 1]
        /\ nstores' = nstores + 1
        /\ UNCHANGED <<chatVars, gen, ingestVars, indexVars>>

\* one call of generate_response; llm_fails: whether llm.ainvoke raises
GenerateResponse(query, context, conversation_history, llm_fails) ==
    LET g == generate_response(query, context, conversation_history) IN
        /\ gen' = [status |-> IF llm_fails THEN "error" ELSE "ok",
                   error |-> IF llm_fails THEN "LLMError" ELSE "none",
                   context |-> context,
                   prompt |-> <<g.prompt>>,
                   sources |-> IF llm_fails THEN <<>> ELSE g.sources]
        /\ UNCHANGED <<chatVars, storeVars, ingestVars, indexVars>>

\* EmbeddingService.generate_embeddings(texts); the fail-th provider call
\* raises
GenerateEmbeddings(texts, fail) ==
    LET e == generate_embeddings(texts, fail) IN
        /\ embedded' = [status |-> e.status, error |-> e.error, texts |-> texts,
                        fail |-> fail, embeddings |-> e.embeddings,
                        calls |-> e.calls]
        /\ UNCHANGED <<chatVars, storeVars, gen, processed, http, indexVars>>

\* VectorStoreService._ensure_index_exists(), as __init__ calls it
EnsureIndexExists(fail) ==
    /\ nensures < MaxEnsures
    /\ LET e == ensure_index_exists(remote_indexes, fail) IN
           /\ remote_indexes' = e.remote
           /\ ensure' = [status |-> e.status, error |-> e.error,
                         present |-> index_name.value \in remote_indexes,
                         created |-> e.created,
                         creates |-> ensure.creates + e.created]
    /\ nensures' = nensures + 1
    /\ UNCHANGED <<chatVars, storeVars, gen, ingestVars>>

\* DocumentProcessor.process_document(file_path, metadata)
ProcessDocument(path, exists, metadata, chunks, fail) ==
    LET p == process_document(path, exists, metadata, chunks, fail) IN
        /\ processed' = [status |-> p.status, error |-> p.error,
                         status_code |-> p.status_code, cause |-> p.cause,
                         given |-> or_empty(metadata), split |-> chunks,
                         chunks |-> p.chunks]
        /\ UNCHANGED <<chatVars, storeVars, gen, embedded, http, indexVars>>

\* POST /process with an uploaded file
PostProcess(file, metadata, chunks, fail) ==
    LET h == post_process(file, metadata, chunks, fail) IN
        /\ http' = [status |-> "done", file |-> file, status_code |-> h.status_code,
                    cause |-> h.cause, body |-> h.body]
        /\ UNCHANGED <<chatVars, storeVars, gen, embedded, processed, indexVars>>

-----------------------------------------------------------------------------
(* Specifications *)

\* numbers of chunks handed to store_embeddings: none, one batch, two batches
ChunkCounts == {0, 1, upsert_batch_size, upsert_batch_size + 1}

\* the provider's behaviour over the attempts: for each attempt the batch whose
\* upsert raises (0: none); attempts after a successful one do not happen
ProviderFailures(n) ==
    {fails \in [1..stop_after_attempt -> 0..NumBatches(n)] :
        \A k \in 1..stop_after_attempt :
            fails[k] = 0 => \A m \in k..stop_after_attempt : fails[m] = 0}

StoreIdle ==
    [status |-> "idle", error |-> "none", n |-> 0,
     fails |-> [k \in 1..stop_after_attempt |-> 0], attempts |-> 0,
     ids |-> <<>>, call |-> 0]

InitStore ==
    /\ index = {}
    /\ next_uuid = 0
    /\ store = StoreIdle
    /\ nstores = 0

GenIdle ==
    [status |-> "idle", error |-> "none", context |-> <<>>, prompt |-> <<>>,
     sources |-> <<>>]

EmbeddedIdle ==
    [status |-> "idle", error |-> "none", texts |-> <<>>, fail |-> 0,
     embeddings |-> <<>>, calls |-> <<>>]

DocIdle ==
    [status |-> "idle", error |-> "none", status_code |-> 0, cause |-> "none",
     given |-> EmptyDict, split |-> <<>>, chunks |-> <<>>]

HttpIdle ==
    [status |-> "idle", file |-> [name |-> "", suffix |-> ""], status_code |-> 0,
     cause |-> "none", body |-> [detail |-> "none"]]

EnsureIdle ==
    [status |-> "idle", error |-> "none", present |-> FALSE, created |-> 0,
     creates |-> 0]

\* nothing has been ingested or generated yet; the index was provisioned
InitIngest ==
    /\ gen = GenIdle
    /\ embedded = EmbeddedIdle
    /\ processed = DocIdle
    /\ http = HttpIdle
    /\ remote_indexes = {}
    /\ ensure = EnsureIdle
    /\ nensures = 0

\* the instants at which the clock is read in SpecRate
Instants == {0, 59, 60, 86400}

\* ten requests of one key accepted at time 0
Saturated == [i \in 1..limit |-> 0]

InitRate ==
    /\ now = 0
    /\ rate_limits = [k \in Keys |-> <<>>]
    /\ accepted = [k \in Keys |-> <<>>]
    /\ conversations = {}
    /\ messages = <<>>
    /\ turn = IdleTurn
    /\ nturns = 0
    /\ InitStore
    /\ InitIngest

\* clients sending messages without a database session, as time passes
NextRate ==
    \/ \E t \in Instants : Advance(t)
    \/ /\ nturns < RateMaxTurns
       /\ ProcessMessage("hi", None, FALSE, NoFailure)
    \/ /\ nturns < RateMaxTurns
       /\ ProcessMessage("hi", UnknownId, FALSE, NoFailure)

SpecRate == InitRate /\ [][NextRate]_vars

\* a service some of whose clients have used up their window at time 0
InitChat ==
    /\ now = 0
    /\ \E full \in SUBSET {anonymous, UnknownId} :
          /\ Cardinality(full) <= 1
          /\ rate_limits = [k \in Keys |-> IF k \in full THEN Saturated ELSE <<>>]
    /\ accepted = rate_limits
    /\ conversations = {}
    /\ messages = <<>>
    /\ turn = IdleTurn
    /\ nturns = 0
    /\ InitStore
    /\ InitIngest

\* chat turns with and without a database session, any call of which may raise
NextChat ==
    \E message \in Messages, has_session \in BOOLEAN,
       conversation_id \in conversations \cup {UnknownId, None} :
       \E f \in FailureChoices(conversation_id, has_session) :
          /\ nturns < ChatMaxTurns
          /\ has_session => Len(messages) + 2 <= MaxMsgs
          /\ has_session /\ conversation_id = None => Cardinality(conversations) < MaxConvs
          /\ ProcessMessage(message, conversation_id, has_session, f)

SpecChat == InitChat /\ [][NextChat]_vars

\* documents being stored while the index provider fails at will
NextStore ==
    \E n \in ChunkCounts :
       \E fails \in ProviderFailures(n) :
          /\ nstores < MaxStores
          /\ StoreEmbeddings(n, fails)

SpecStore == InitRate /\ [][NextStore]_vars

\* similarity scores (x100) around the threshold
Scores == {50, 70, 71, 75, 90}

\* text of the i-th match
DocTexts == <<"d1", "d2", "d3", "d4", "d5">>

\* every list of up to MaxDocs retrieved documents with those scores
Contexts ==
    UNION {{[i \in 1..n |-> [text |-> DocTexts[i], score |-> sc[i],
                              metadata |-> [chunk_index |-> i - 1]]] :
               sc \in [1..n -> Scores]} : n \in 0..MaxDocs}

\* responses being generated for any retrieved context
NextGen ==
    \E context \in Contexts, llm_fails \in BOOLEAN :
        GenerateResponse("hi", context, <<>>, llm_fails)

SpecGen == InitRate /\ [][NextGen]_vars

\* the inputs of generate_embeddings: up to MaxTexts texts, some of them equal
TextLists == {[i \in 1..n |-> (i * p) % 5] : n \in 0..MaxTexts, p \in {1, 2}}

\* provider calls generate_embeddings makes for n texts
EmbedBatches(n) == (n + embed_batch_size - 1) \div embed_batch_size

\* embeddings being generated for any list of texts, any one call failing
NextEmbed ==
    \E texts \in TextLists :
        \E fail \in 0..EmbedBatches(Len(texts)) : GenerateEmbeddings(texts, fail)

SpecEmbed == InitRate /\ [][NextEmbed]_vars

\* names of indexes a Pinecone project may hold
IndexNames == {index_name.value, "docs", "faq", "logs", "notes"}

\* any project, before the first VectorStoreService is constructed
InitIndex ==
    /\ now = 0
    /\ rate_limits = [k \in Keys |-> <<>>]
    /\ accepted = [k \in Keys |-> <<>>]
    /\ conversations = {}
    /\ messages = <<>>
    /\ turn = IdleTurn
    /\ nturns = 0
    /\ InitStore
    /\ gen = GenIdle
    /\ embedded = EmbeddedIdle
    /\ processed = DocIdle
    /\ http = HttpIdle
    /\ remote_indexes \in SUBSET IndexNames
    /\ ensure = EnsureIdle
    /\ nensures = 0

\* client calls of _ensure_index_exists that may raise for their own reasons
EnsureFailures == {"none", "list_indexes", "create_index"}

\* services being constructed one after the other against one project
NextIndex == \E fail \in EnsureFailures : EnsureIndexExists(fail)

SpecIndex == InitIndex /\ [][NextIndex]_vars

\* the files handed in: supported, supported in upper case, unsupported
Files ==
    {[name |-> "report.pdf", suffix |-> ".pdf"],
     [name |-> "notes.txt", suffix |-> ".txt"],
     [name |-> "cv.docx", suffix |-> ".docx"],
     [name |-> "SCAN.PDF", suffix |-> ".PDF"],
     [name |-> "notes.md", suffix |-> ".md"],
     [name |-> "README", suffix |-> ""]}

\* the metadata a caller passes: none, empty, fields of its own, and fields
\* named like those process_document sets
MetadataChoices ==
    {NoMetadata, Metadata(EmptyDict), Metadata("author" :> "ann"),
     Metadata(("chunk_index" :> 7) @@ ("total_chunks" :> 9)),
     Metadata(("source" :> "mine") @@ ("chunk_index" :> 0))}

\* what the splitter yields: up to MaxChunks page contents in document order
SplitOutputs == {[k \in 1..n |-> (k * p) % 3] : n \in 0..MaxChunks, p \in {1, 2}}

\* documents being processed, any file, any metadata, any library call failing
NextDoc ==
    \E path \in Files, exists \in BOOLEAN, metadata \in MetadataChoices,
       chunks \in SplitOutputs, fail \in {"none", "load", "split"} :
        ProcessDocument(path, exists, metadata, chunks, fail)

SpecDoc == InitRate /\ [][NextDoc]_vars

\* files being uploaded, any call of the handler failing
NextUpload ==
    \E file \in Files, metadata \in MetadataChoices, chunks \in SplitOutputs,
       fail \in {"none", "save", "load", "split", "embed"} :
        PostProcess(file, metadata, chunks, fail)

SpecUpload == InitRate /\ [][NextUpload]_vars

Init == InitRate

Next ==
    \/ NextRate
    \/ NextChat
    \/ NextStore
    \/ NextGen
    \/ NextEmbed
    \/ NextIndex
    \/ NextDoc
    \/ NextUpload

Spec == Init /\ [][Next]_vars

-----------------------------------------------------------------------------
(* Properties *)

\* rows as _get_conversation_history tags them
AsHistory(rows) ==
    [i \in 1..Len(rows) |->
        [role |-> IF rows[i].is_user THEN "user" ELSE "assistant",
         content |-> rows[i].content]]

\* the accepted requests of the turn's key before the turn itself
AcceptedBefore(t, acc) ==
    IF t.allowed THEN SubSeq(acc[t.key], 1, Len(acc[t.key]) - 1) ELSE acc[t.key]

\* C1: of any limit + 1 requests of one key that were accepted, the first and
\* the last are at least one window apart: no key ever has more than 10
\* requests accepted within 60 seconds.
RateLimitNeverExceeded ==
    \A k \in Keys :
        \A i \in 1..Len(accepted[k]) :
            i + limit <= Len(accepted[k]) =>
                accepted[k][i + limit] - accepted[k][i] >= window

\* C1 witness: a request is rejected at second 59 while the ten requests
\* accepted before it are all less than 60 seconds old.
RejectedWithinWindow ==
    /\ turn.status = "error"
    /\ ~turn.allowed
    /\ turn.now = 59
    /\ Len(accepted[turn.key]) = limit
    /\ \A i \in 1..limit : turn.now - accepted[turn.key][i] < window

\* C2: a request that arrives a window or more after every request of its key
\* accepted before it is accepted, however long the gap.
AcceptedAfterWindow ==
    turn.status # "idle" =>
        LET before == AcceptedBefore(turn, accepted)
        IN  (\A i \in 1..Len(before) : turn.now - before[i] >= window) => turn.allowed

\* C3: a turn that the rate limiter rejects fails without any call to the
\* embedding provider, the vector index, the LLM or the database, and leaves
\* the persisted rows as they were.
RejectedTurnMakesNoCall ==
    [][nturns' # nturns /\ ~turn'.allowed =>
          /\ turn'.status = "error"
          /\ turn'.calls = <<>>
          /\ UNCHANGED <<conversations, messages>>]_vars

\* C3 witness: a turn that came with a database session was rejected.
RejectedTurnWithSession ==
    /\ turn.status = "error"
    /\ ~turn.allowed
    /\ turn.has_session
    /\ turn.key = anonymous

\* C4: when the turn was persisted, the payload's conversation_id is the id
\* the turn was persisted under: the new conversation's id when none was
\* supplied, the supplied id otherwise.
PayloadCarriesConversationId ==
    turn.status = "ok" /\ turn.saved_as # None =>
        turn.payload[1].conversation_id = turn.saved_as

\* C5: a turn that passed the rate limiter and whose embedding, search,
\* response generation and follow-up generation all succeeded returns its
\* payload, whatever database call of the save step fails.
SaveIsBestEffort ==
    turn.status # "idle" /\ turn.allowed /\ turn.f.pipe = "none" =>
        turn.status = "ok" /\ turn.payload # <<>>

\* whether a database call of the history load raised in turn t, given the
\* conversations that existed when it ran
HistoryLoadFailed(t, convs) ==
    /\ t.has_session
    /\ t.conversation_id # None
    /\ t.f.pipe \notin {"embed", "index.query"}
    /\ \/ t.f.hist = "get"
       \/ t.f.hist = "select" /\ t.conversation_id \in convs

HistoryLoaded(t) ==
    /\ t.allowed
    /\ t.has_session
    /\ t.conversation_id # None
    /\ t.f.pipe \notin {"embed", "index.query"}
    /\ t.f.hist = "none"

\* C7: the history loaded for a conversation is its most recent history_limit
\* messages, oldest first, each tagged by its authorship flag; it is empty when
\* the conversation does not exist.
HistoryOldestFirst ==
    [][nturns' # nturns /\ HistoryLoaded(turn') =>
          turn'.history =
              IF turn'.conversation_id \in conversations
              THEN AsHistory(LastN(MessagesOf(messages, turn'.conversation_id),
                                   history_limit))
              ELSE <<>>]_vars

\* C8: the "previous conversation" block sent to the LLM in a turn of an
\* existing conversation is the conversation's prompt_history most recent
\* messages, oldest first.
PromptHasLastFiveOldestFirst ==
    [][nturns' # nturns /\ HistoryLoaded(turn') /\ turn'.prompt # <<>>
          /\ turn'.conversation_id \in conversations =>
              turn'.prompt[1].previous =
                  AsHistory(LastN(MessagesOf(messages, turn'.conversation_id),
                                  prompt_history))]_vars

\* C9: when the provider fails in the first two attempts and not in the third,
\* store_embeddings succeeds after exactly 3 attempts; when it fails in every
\* attempt, store_embeddings makes exactly 3 attempts and the caller observes
\* a VectorStoreError.
RetryBound ==
    store.status # "idle" =>
        /\ store.fails[1] # 0 /\ store.fails[2] # 0 /\ store.fails[3] = 0 =>
              store.status = "ok" /\ store.attempts = 3
        /\ store.fails[1] # 0 /\ store.fails[2] # 0 /\ store.fails[3] # 0 =>
              /\ store.status = "error"
              /\ store.attempts = 3
              /\ store.error = "VectorStoreError"

\* C10: a turn's save leaves the committed rows either as they were, or with
\* exactly the turn's user message and assistant message appended in that
\* order (and the new conversation added when no id was supplied); whenever a
\* call of the save failed and was rolled back, they are as they were.
TurnPersistedAtomically ==
    [][nturns' # nturns =>
          /\ \/ UNCHANGED <<conversations, messages>> /\ turn'.saved_as = None
             \/ /\ turn'.saved_as # None
                /\ messages' = messages \o
                      << [conversation_id |-> turn'.saved_as,
                          content |-> turn'.message, is_user |-> TRUE],
                         [conversation_id |-> turn'.saved_as,
                          content |-> LLMResponse, is_user |-> FALSE] >>
                /\ turn'.conversation_id = None =>
                      /\ turn'.saved_as \notin conversations
                      /\ conversations' = conversations \cup {turn'.saved_as}
                /\ turn'.conversation_id # None =>
                      /\ turn'.saved_as = turn'.conversation_id
                      /\ conversations' = conversations
                /\ turn'.saved_as \in conversations'
          /\ "db.rollback" \in Range(turn'.calls) =>
                UNCHANGED <<conversations, messages>>]_vars

\* C10 witness: a turn that had to create its conversation failed at the add
\* of the assistant message, after the conversation was flushed and the user
\* message added, and was rolled back.
SaveFailedAfterFlush ==
    /\ turn.has_session
    /\ turn.conversation_id = None
    /\ turn.f.save = "db.add_assistant"
    /\ turn.calls # <<>>
    /\ turn.calls[Len(turn.calls)] = "db.rollback"
    /\ "db.flush" \in Range(turn.calls)

\* C16: when store_embeddings returns successfully, the vectors the call wrote
\* to the index are exactly one per input chunk, each under the id at the
\* chunk's position in the returned list: no vector of an earlier failed
\* attempt remains under an id that is not returned.
StoredExactlyReturnedIds ==
    store.status = "ok" =>
        {v \in index : v.call = store.call} =
            {[id |-> store.ids[j], call |-> store.call, chunk |-> j] : j \in 1..store.n}

\* C11: the sources generate_response returns are exactly the retrieved
\* documents scoring strictly above the threshold, in retrieval order, and the
\* context block sent to the LLM lists every retrieved document.
SourcesAboveThreshold ==
    gen.status = "ok" =>
        LET ctx == gen.context
            above == {i \in 1..Len(ctx) : ctx[i].score > score_threshold}
            pos(k) == CHOOSE i \in above : Cardinality({j \in above : j <= i}) = k
        IN  /\ Len(gen.sources) = Cardinality(above)
            /\ \A k \in 1..Len(gen.sources) :
                   gen.sources[k] = [text |-> ctx[pos(k)].text,
                                     metadata |-> ctx[pos(k)].metadata,
                                     similarity_score |-> ctx[pos(k)].score]
            /\ Len(gen.prompt[1].context) = Len(ctx)
            /\ \A i \in 1..Len(ctx) : gen.prompt[1].context[i] = ctx[i].text

\* retrieved documents scoring 0.9, 0.75, 0.5 gave two sources and three
\* context entries
TwoSourcesThreeContexts ==
    /\ gen.status = "ok"
    /\ [i \in 1..Len(gen.context) |-> gen.context[i].score] = <<90, 75, 50>>
    /\ Len(gen.sources) = 2
    /\ Len(gen.prompt[1].context) = 3

\* C12: generate_embeddings of N texts returns N vectors, the i-th being the
\* embedding of the i-th text, after ceil(N/20) provider calls of at most 20
\* texts each that carry the texts in input order; when a call fails, no
\* vector is returned and no further call is made.
EmbeddingsInOrder ==
    LET texts == embedded.texts
        calls == embedded.calls
        N == Len(texts)
        \* number of texts sent in the calls before the k-th
        before(k) == (k - 1) * embed_batch_size
    IN  /\ embedded.status # "idle" =>
               \A k \in 1..Len(calls) :
                   /\ Len(calls[k]) >= 1
                   /\ Len(calls[k]) <= embed_batch_size
                   /\ k < Len(calls) => Len(calls[k]) = embed_batch_size
                   /\ before(k) + Len(calls[k]) <= N
                   /\ \A j \in 1..Len(calls[k]) : calls[k][j] = texts[before(k) + j]
        /\ embedded.status = "ok" =>
               /\ Len(embedded.embeddings) = N
               /\ \A i \in 1..N : embedded.embeddings[i] = Embedding(texts[i])
               /\ Len(calls) * embed_batch_size >= N
               /\ Len(calls) * embed_batch_size < N + embed_batch_size
        /\ embedded.status = "error" =>
               /\ embedded.error = "DocumentProcessingError"
               /\ embedded.embeddings = None
               /\ Len(calls) = embedded.fail

\* 41 texts were embedded in three provider calls
EmbeddedInThreeBatches ==
    /\ embedded.status = "ok"
    /\ Len(embedded.texts) > 2 * embed_batch_size
    /\ Len(embedded.calls) = 3

\* C13: over any sequence of _ensure_index_exists calls against one project
\* the create-index operation is issued at most once, and a call made while
\* the index is present issues no create and raises no error.
EnsureIndexIdempotent ==
    ensure.status # "idle" =>
        /\ ensure.creates <= 1
        /\ ensure.present => ensure.created = 0 /\ ensure.status = "ok"

\* C14: whatever metadata the caller supplies, the n chunks process_document
\* returns carry total_chunks = n and chunk_index 0..n-1 in output order, and
\* they are the splitter's chunks in document order.
ChunkIndexesConsistent ==
    processed.status = "ok" =>
        /\ Len(processed.chunks) = Len(processed.split)
        /\ \A k \in 1..Len(processed.chunks) :
               /\ processed.chunks[k].text = processed.split[k]
               /\ processed.chunks[k].metadata["chunk_index"] = k - 1
               /\ processed.chunks[k].metadata["total_chunks"] = Len(processed.split)

\* several chunks were produced for a caller whose metadata has a
\* chunk_index of its own
CallerNamedChunkIndex ==
    /\ processed.status = "ok"
    /\ Len(processed.chunks) >= 2
    /\ "chunk_index" \in DOMAIN processed.given
    /\ "total_chunks" \in DOMAIN processed.given

\* C15: POST /process answers an unsupported or missing input with a 4xx
\* status and a failure of loading, splitting or embedding with a 5xx status,
\* and returns no chunks in either case.
ErrorsClassifiedByCause ==
    http.status = "done" =>
        /\ http.cause \in {"unsupported", "missing"} =>
               http.status_code >= 400 /\ http.status_code <= 499
        /\ http.cause \in {"save", "load", "split", "embed"} =>
               http.status_code >= 500 /\ http.status_code <= 599
        /\ http.cause # "none" => "chunks" \notin DOMAIN http.body

====
